---- MODULE Spec2Model ----
(***************************************************************************)
(* Model of cargo-xtest: the xconfig configuration layer.                  *)
(*                                                                         *)
(*   cargo-xbuild/src/config.rs   schema + config store, feature mapper    *)
(*   cargo-xbuild/src/wrapper.rs  RUSTC_WRAPPER stand-in (cfg + extern)    *)
(*   xtask/src/main.rs            xtask orchestrator, its mapper + wrapper *)
(*   xtask/src/resolve.rs         extern resolver (two-tier graph query)   *)
(*   cargo-xbuild/src/config.rs   generated files (sync_cargo_config, ..)  *)
(*                                                                         *)
(* Strings that the code takes apart (split_once, split) are sequences of  *)
(* one-character strings; files are sequences of lines.                    *)
(***************************************************************************)
EXTENDS Integers, Sequences, FiniteSets, TLC

VARIABLES
    defconfig,    \* defconfig.toml on disk
    configFile,   \* .config.toml on disk
    lastOp,       \* the config-store operation that ran last
    opResult,     \* its Result: "ok" or the error it returned
    active,       \* Vec<String> returned by load_active_xconfigs
    all_keys,     \* Vec<String> returned by load_active_xconfigs
    errors,       \* validate_config's `errors` vector (printed to stderr)
    manifests,    \* the Cargo.toml files under crates/ and entry/
    feature_map,  \* HashMap<String, Vec<String>> built by the feature mapper
    procs,        \* the processes: "user" (started by the user), "cargo" (started by cargo
                  \* as the compiler stand-in)
    graph,        \* what `cargo metadata` answers and the manifests it points to
    queries,      \* the `cargo metadata` queries resolve_extern_map has issued
    extern_result,\* the Result resolve_extern_map returned
    passes        \* two consecutive resolution passes and what each produced

cfgVars == <<defconfig, configFile, lastOp, opResult, active, all_keys, errors>>
mapVars == <<manifests, feature_map>>
extVars == <<graph, queries, extern_result, passes>>
vars == <<cfgVars, mapVars, procs, extVars>>

\* ------------------------------------------------------------------------
\* Bounds
\* ------------------------------------------------------------------------
MaxKeys == 2          \* switch names that schema and config files draw from
MaxDecls == 2         \* FeatureSpec entries declared over all mapping tables
MaxEntries == 2       \* entries of an environment table handed to a stand-in

\* ------------------------------------------------------------------------
\* Generic helpers
\* ------------------------------------------------------------------------
Range(s) == {s[i] : i \in DOMAIN s}

\* The iteration orders a HashMap with key set S can have.
Perms(S) == {p \in [1..Cardinality(S) -> S] : \A i, j \in DOMAIN p : p[i] = p[j] => i = j}

RECURSIVE FilterSeq(_, _)
\* s.iter().filter(|x| x \in keep), as a sequence
FilterSeq(s, keep) ==
    IF s = <<>> THEN <<>>
    ELSE IF Head(s) \in keep THEN <<Head(s)>> \o FilterSeq(Tail(s), keep)
         ELSE FilterSeq(Tail(s), keep)

RECURSIVE Flatten(_)
Flatten(ss) == IF ss = <<>> THEN <<>> ELSE Head(ss) \o Flatten(Tail(ss))

\* ------------------------------------------------------------------------
\* Switch names and their lexicographic order (String's Ord)
\* ------------------------------------------------------------------------
NameOrder == <<"a", "b", "c", "d">>
Names == {NameOrder[i] : i \in 1..MaxKeys}
Rank(k) == CHOOSE i \in DOMAIN NameOrder : NameOrder[i] = k

\* keys.sort()
SortKeys(S) == CHOOSE p \in Perms(S) : \A i, j \in DOMAIN p : i < j => Rank(p[i]) < Rank(p[j])

\* ------------------------------------------------------------------------
\* types.rs: XConfigDef, toml::Value
\* ------------------------------------------------------------------------
NoDesc == "<None>"
Types == {"bool", "int", "string", "float"}     \* "float": a type validate_config does not support
XConfigDef == [description : {NoDesc, "doc"}, typ : Types, default : BOOLEAN]

\* The value tokens a config line can carry and the toml::Value each parses to.
Tokens == {"true", "false", "1", "\"s\""}
TomlValue(tok) ==
    CASE tok = "true"  -> [t |-> "Boolean", b |-> TRUE]
      [] tok = "false" -> [t |-> "Boolean", b |-> FALSE]
      [] tok = "1"     -> [t |-> "Integer", b |-> FALSE]
      [] OTHER         -> [t |-> "String",  b |-> FALSE]
is_bool(v) == v.t = "Boolean"
is_integer(v) == v.t = "Integer"
is_str(v) == v.t = "String"
\* Value::as_bool().unwrap_or(false)
as_bool_or_false(v) == IF v.t = "Boolean" THEN v.b ELSE FALSE

\* format!("{}", bool)
FormatBool(b) == IF b THEN "true" ELSE "false"

EmptyMap == [k \in {} |-> TRUE]

\* ------------------------------------------------------------------------
\* Files.  A file is missing, or text: a sequence of lines.  Lines:
\*   <<"#", text>>        comment
\*   <<"[", name, "]">>   table header
\*   <<key, "=", token>>  key/value
\*   <<>>                 empty line
\*   <<"?">>              text that is not TOML
\* ------------------------------------------------------------------------
Missing == [kind |-> "missing", lines |-> <<>>]
Text(ls) == [kind |-> "text", lines |-> ls]

IsComment(l) == Len(l) = 2 /\ l[1] = "#"
IsHeader(l) == Len(l) = 3 /\ l[1] = "["
IsKeyVal(l) == Len(l) = 3 /\ l[2] = "="

RECURSIVE ParseLines(_, _, _, _)
\* toml::from_str::<ProjectConfig>: the [xconfig] table of the document, None when the
\* document has no such table, or a parse error.  Keys outside [xconfig] are not fields
\* of ProjectConfig and are ignored.
ParseLines(ls, table, seen, acc) ==
    IF ls = <<>> THEN [ok |-> TRUE, some |-> "xconfig" \in seen, map |-> acc]
    ELSE LET l == Head(ls) IN
         IF l = <<>> \/ IsComment(l) THEN ParseLines(Tail(ls), table, seen, acc)
         ELSE IF IsHeader(l) THEN
                IF l[2] \in seen THEN [ok |-> FALSE, some |-> FALSE, map |-> EmptyMap]
                ELSE ParseLines(Tail(ls), l[2], seen \cup {l[2]}, acc)
         ELSE IF IsKeyVal(l) /\ l[3] \in Tokens THEN
                IF table # "xconfig" THEN ParseLines(Tail(ls), table, seen, acc)
                ELSE IF l[1] \in DOMAIN acc THEN [ok |-> FALSE, some |-> FALSE, map |-> EmptyMap]
                ELSE ParseLines(Tail(ls), table, seen,
                                [k \in DOMAIN acc \cup {l[1]} |->
                                    IF k = l[1] THEN TomlValue(l[3]) ELSE acc[k]])
         ELSE [ok |-> FALSE, some |-> FALSE, map |-> EmptyMap]

ParseProjectConfig(ls) == ParseLines(ls, "", {}, EmptyMap)

\* ------------------------------------------------------------------------
\* Processes
\* ------------------------------------------------------------------------
\* std::env::var(name): None when the variable is not set, Some(value) otherwise
None == [set |-> FALSE, val |-> <<>>]
Some(v) == [set |-> TRUE, val |-> v]

\* How a child process ended, and how this process ends.
Code(n) == [kind |-> "code", n |-> n]
Signal(n) == [kind |-> "signal", n |-> n]
SpawnError == [kind |-> "spawn", n |-> 0]
NoStatus == [kind |-> "none", n |-> 0]

NoEnv == [sentinel |-> None, rustc_wrapper |-> None, rustflags |-> None,
          features |-> None, externs |-> None]

\* pc: "none" not started, "start" entering main, "rustc" waiting for the compiler,
\*     "cargo" waiting for the build, "exited"
NoProc == [pc |-> "none", bin |-> "xtask", env |-> NoEnv, args |-> <<>>, branch |-> "none",
           resolved |-> FALSE, launched |-> FALSE, cmd |-> <<>>, childEnv |-> NoEnv,
           child |-> NoStatus, exit |-> NoStatus]
NoProcs == [i \in {"user", "cargo"} |-> NoProc]

Started(bin, env, args) == [NoProc EXCEPT !.pc = "start", !.bin = bin, !.env = env, !.args = args]

\* ------------------------------------------------------------------------
\* The resolver's and the passes' state before anything ran
\* ------------------------------------------------------------------------
\* `cargo metadata` could not be run, or exited unsuccessfully
QueryFails == [status |-> "fail", packages |-> <<>>]
NoGraph == [light |-> QueryFails, full |-> QueryFails, files |-> <<>>]
NoResolve == [status |-> "none", map |-> <<>>, at |-> <<>>]
NoWorld == [workspace |-> <<>>, graph |-> NoGraph, rlib_paths |-> <<>>]
NoPass ==
    [pc |-> "idle", world |-> NoWorld, ok |-> TRUE, active |-> <<>>, all_keys |-> <<>>,
     feature_map |-> <<>>, extern_map |-> <<>>, rustflags |-> <<>>,
     cargo_config |-> <<>>, vscode_settings |-> <<>>]
NoPasses == [r \in {1, 2} |-> NoPass]

IdleResolver ==
    /\ graph = NoGraph
    /\ queries = <<>>
    /\ extern_result = NoResolve
    /\ passes = NoPasses

\* ------------------------------------------------------------------------
\* config.rs: load_defconfig
\* ------------------------------------------------------------------------
\* defconfig.toml is held parsed: [kind, defs]; kind "missing" and "malformed" make
\* read_to_string / toml::from_str fail.
load_defconfig ==
    IF defconfig.kind = "ok" THEN [ok |-> TRUE, defs |-> defconfig.defs]
    ELSE [ok |-> FALSE, defs |-> EmptyMap]

\* ------------------------------------------------------------------------
\* config.rs: ensure_config_toml
\* ------------------------------------------------------------------------
\* The lines pushed for one key: the description comment, if any, then `key = default`.
KeyLines(key, def) ==
    (IF def.description # NoDesc THEN <<(<<"#", def.description>>)>> ELSE <<>>)
    \o <<(<<key, "=", FormatBool(def.default)>>)>>

GeneratedLines(defs) ==
    LET keys == SortKeys(DOMAIN defs)
    IN  <<(<<"#", "Auto-generated from defconfig.toml">>), (<<"[", "xconfig", "]">>)>>
        \o Flatten([i \in DOMAIN keys |-> KeyLines(keys[i], defs[keys[i]])])
        \o << <<>> >>

config_exists == configFile.kind # "missing"

\* An operation other than load_active_xconfigs returns no (active, all_keys) and
\* prints no validation error.
NoLoadResult ==
    /\ active' = <<>>
    /\ all_keys' = <<>>
    /\ errors' = <<>>

\* An ensure_config_toml without the `exists` early return.
EnsureConfigOverwriting ==
    /\ lastOp' = "ensure"
    /\ LET d == load_defconfig IN
       IF ~d.ok
       THEN /\ opResult' = "defconfig"
            /\ UNCHANGED configFile
       ELSE /\ configFile' = Text(GeneratedLines(d.defs))
            /\ opResult' = "ok"
    /\ NoLoadResult
    /\ UNCHANGED <<defconfig, mapVars, procs, extVars>>

EnsureConfig ==
    /\ lastOp' = "ensure"
    /\ IF config_exists
       THEN /\ opResult' = "ok"
            /\ UNCHANGED configFile
       ELSE LET d == load_defconfig IN
            IF ~d.ok
            THEN /\ opResult' = "defconfig"
                 /\ UNCHANGED configFile
            ELSE /\ configFile' = Text(GeneratedLines(d.defs))
                 /\ opResult' = "ok"
    /\ NoLoadResult
    /\ UNCHANGED <<defconfig, mapVars, procs, extVars>>

\* ------------------------------------------------------------------------
\* config.rs: validate_config
\* ------------------------------------------------------------------------
Err(kind, key) == [kind |-> kind, key |-> key]

\* A validator that does not look for unknown keys.
UnknownErrorsSkipped(config_map, defs, ordC) == <<>>

\* first loop: keys of .config.toml that defconfig.toml does not define
UnknownErrors(config_map, defs, ordC) ==
    LET unk == FilterSeq(ordC, DOMAIN config_map \ DOMAIN defs)
    IN  [i \in DOMAIN unk |-> Err("unknown", unk[i])]

\* body of the second loop for one (key, def)
DefErrors(config_map, key, def) ==
    IF key \notin DOMAIN config_map THEN <<Err("missing", key)>>
    ELSE LET val == config_map[key] IN
         IF def.typ \notin {"bool", "int", "string"} THEN <<Err("unsupported", key)>>
         ELSE LET type_ok == CASE def.typ = "bool" -> is_bool(val)
                               [] def.typ = "int" -> is_integer(val)
                               [] def.typ = "string" -> is_str(val)
              IN IF ~type_ok THEN <<Err("mismatch", key)>> ELSE <<>>

\* A fail-fast validator: it returns at the first violation it meets.
validate_config_fail_fast(config_map, defs, ordC, ordD) ==
    LET all == UnknownErrors(config_map, defs, ordC)
               \o Flatten([i \in DOMAIN ordD |-> DefErrors(config_map, ordD[i], defs[ordD[i]])])
    IN  IF all = <<>> THEN <<>> ELSE <<Head(all)>>

\* ordC, ordD: the iteration orders of the two HashMaps
validate_config(config_map, defs, ordC, ordD) ==
    UnknownErrors(config_map, defs, ordC)
    \o Flatten([i \in DOMAIN ordD |-> DefErrors(config_map, ordD[i], defs[ordD[i]])])

\* ------------------------------------------------------------------------
\* config.rs: load_active_xconfigs
\* ------------------------------------------------------------------------
ActiveOf(map, ordC) == FilterSeq(ordC, {k \in DOMAIN map : as_bool_or_false(map[k])})

LoadFails(why) ==
    /\ opResult' = why
    /\ active' = <<>>
    /\ all_keys' = <<>>

\* What one run over the two HashMaps returns, for every pair of iteration orders:
\* the errors; on success the active keys and all_keys.
LoadOutcomes(map, defs) ==
    {LET errs == validate_config(map, defs, ordC, ordD) IN
     [errs |-> errs,
      active |-> IF errs = <<>> THEN ActiveOf(map, ordC) ELSE <<>>,
      all_keys |-> IF errs = <<>> THEN ordD ELSE <<>>] :
        ordC \in Perms(DOMAIN map), ordD \in Perms(DOMAIN defs)}

LoadActive ==
    /\ lastOp' = "load"
    /\ LET d == load_defconfig IN
       IF ~d.ok THEN LoadFails("defconfig") /\ errors' = <<>>
       ELSE IF ~config_exists THEN LoadFails("read") /\ errors' = <<>>
       ELSE LET p == ParseProjectConfig(configFile.lines) IN
            IF ~p.ok THEN LoadFails("parse") /\ errors' = <<>>
            ELSE \E o \in LoadOutcomes(p.map, d.defs) :
                    /\ errors' = o.errs
                    /\ opResult' = IF o.errs # <<>> THEN "validation" ELSE "ok"
                    /\ active' = o.active
                    /\ all_keys' = o.all_keys
    /\ UNCHANGED <<defconfig, configFile, mapVars, procs, extVars>>

\* ------------------------------------------------------------------------
\* The user: edits or removes .config.toml between runs
\* ------------------------------------------------------------------------
ConfigMaps == UNION {[S -> Tokens] : S \in SUBSET Names}

UserLines(m) ==
    LET keys == SortKeys(DOMAIN m)
    IN  << <<"[", "xconfig", "]">> >> \o [i \in DOMAIN keys |-> <<keys[i], "=", m[keys[i]]>>]

UserConfigs ==
    {Text(UserLines(m)) : m \in ConfigMaps}
    \cup {Text(<<>>), Text(<< <<"?">> >>)}

RemoveConfig ==
    /\ config_exists
    /\ configFile' = Missing
    /\ lastOp' = "remove"
    /\ opResult' = "ok"
    /\ NoLoadResult
    /\ UNCHANGED <<defconfig, mapVars, procs, extVars>>

\* ------------------------------------------------------------------------
\* Config store specification
\* ------------------------------------------------------------------------
Schemas == UNION {[S -> XConfigDef] : S \in SUBSET Names}

DefConfigs ==
    {[kind |-> "ok", defs |-> s] : s \in Schemas}
    \cup {[kind |-> "missing", defs |-> EmptyMap], [kind |-> "malformed", defs |-> EmptyMap]}

\* validate_config reads only `typ` of a definition: the schemas of the validation
\* specification vary the types and keep description and default at their serde defaults.
PlainDefConfigs ==
    {d \in DefConfigs : \A k \in DOMAIN d.defs :
        d.defs[k].description = NoDesc /\ d.defs[k].default = FALSE}

InitStore ==
    /\ IdleResolver
    /\ lastOp = "init"
    /\ opResult = "ok"
    /\ active = <<>>
    /\ all_keys = <<>>
    /\ errors = <<>>
    /\ manifests = EmptyMap
    /\ feature_map = EmptyMap
    /\ procs = NoProcs

\* any hand-written .config.toml against any typed schema
InitConfig ==
    /\ defconfig \in PlainDefConfigs
    /\ configFile \in UserConfigs \cup {Missing}
    /\ InitStore

\* any schema; .config.toml absent or one of a few hand-written files
InitEnsure ==
    /\ defconfig \in DefConfigs
    /\ configFile \in {Missing, Text(<<>>), Text(<< <<"?">> >>),
                       Text(UserLines([k \in Names |-> "true"]))}
    /\ InitStore

NextConfig == EnsureConfig \/ LoadActive \/ RemoveConfig

SpecConfig == InitConfig /\ [][NextConfig]_vars

SpecEnsure == InitEnsure /\ [][NextConfig]_vars

\* ========================================================================
\* Feature mapper
\* ========================================================================
\* A string the code takes apart is a sequence of chunks; the separators are chunks of
\* their own ("/" here; ";", ":", "," and "=" in the environment tables).

\* str::split_once(sep): the parts around the first occurrence of sep
HasSep(s, sep) == \E i \in DOMAIN s : s[i] = sep
FirstSep(s, sep) == CHOOSE i \in DOMAIN s : s[i] = sep /\ \A j \in 1..(i - 1) : s[j] # sep
SplitLeft(s, sep) == SubSeq(s, 1, FirstSep(s, sep) - 1)
SplitRight(s, sep) == SubSeq(s, FirstSep(s, sep) + 1, Len(s))

\* feature_map.entry(name).or_default().push(feat)
PushFeature(fm, name, feat) ==
    [n \in DOMAIN fm \cup {name} |->
        IF n = name THEN (IF n \in DOMAIN fm THEN fm[n] ELSE <<>>) \o <<feat>>
        ELSE fm[n]]

\* A parsed Cargo.toml:
\*   kind     "ok", "noname" ([package] without name) or "malformed" (toml::from_str fails)
\*   dir      "crates" (a subdirectory of crates/) or "entry"
\*   name     package.name
\*   xconfig  [package.metadata.xconfig]: switch -> Vec<FeatureSpec>; empty when absent
self_name(m) == IF m.kind = "noname" THEN <<>> ELSE m.name
has_name(m) == m.kind # "noname"

\* cargo-xbuild, config.rs: what one spec of an active key adds
PushSpec(fm, m, spec) ==
    IF HasSep(spec, "/") THEN PushFeature(fm, SplitLeft(spec, "/"), SplitRight(spec, "/"))
    ELSE IF has_name(m) THEN PushFeature(fm, self_name(m), spec)
    ELSE fm

\* xtask, main.rs: only "crate_name/feature_name" specs add anything
XtaskPushSpec(fm, m, spec) ==
    IF HasSep(spec, "/") THEN PushFeature(fm, SplitLeft(spec, "/"), SplitRight(spec, "/"))
    ELSE fm

RECURSIVE PushSpecs(_, _, _, _)
\* for spec in specs { ... }
PushSpecs(fm, m, specs, xtask) ==
    IF specs = <<>> THEN fm
    ELSE PushSpecs(IF xtask THEN XtaskPushSpec(fm, m, Head(specs)) ELSE PushSpec(fm, m, Head(specs)),
                   m, Tail(specs), xtask)

RECURSIVE PushKeys(_, _, _, _)
\* for key in active { if let Some(specs) = xconfig.get(key) { ... } }
PushKeys(fm, m, act, xtask) ==
    IF act = <<>> THEN fm
    ELSE PushKeys(IF Head(act) \in DOMAIN m.xconfig
                  THEN PushSpecs(fm, m, m.xconfig[Head(act)], xtask) ELSE fm,
                  m, Tail(act), xtask)

\* collect_xconfig_metadata of config.rs (xtask = FALSE) and of xtask/main.rs (TRUE)
collect_xconfig_metadata(m, act, fm, xtask) ==
    IF m.kind = "malformed" THEN [ok |-> FALSE, fm |-> fm]
    ELSE [ok |-> TRUE, fm |-> PushKeys(fm, m, act, xtask)]

RECURSIVE CollectOver(_, _, _, _)
\* the manifests in visiting order; `?` returns at the first failure
CollectOver(ms, act, fm, xtask) ==
    IF ms = <<>> THEN [ok |-> TRUE, fm |-> fm]
    ELSE LET r == collect_xconfig_metadata(Head(ms), act, fm, xtask) IN
         IF ~r.ok THEN r ELSE CollectOver(Tail(ms), act, r.fm, xtask)

CratesDir == {d \in DOMAIN manifests : manifests[d].dir = "crates"}
EntryDir == {d \in DOMAIN manifests : manifests[d].dir = "entry"}

\* The order in which the manifests are visited: crates/ in the order read_dir yields
\* its entries, then entry/.
VisitOrders ==
    {[i \in DOMAIN o |-> manifests[o[i]]] : o \in {c \o e : c \in Perms(CratesDir), e \in Perms(EntryDir)}}

\* config.rs: collect_all_metadata(root, active)
CollectAllMetadata ==
    /\ lastOp' = "collect"
    /\ \E ms \in VisitOrders :
         LET r == CollectOver(ms, active, EmptyMap, FALSE) IN
         IF r.ok THEN opResult' = "ok" /\ feature_map' = r.fm
         ELSE opResult' = "manifest" /\ feature_map' = EmptyMap
    /\ UNCHANGED <<defconfig, configFile, active, all_keys, errors, manifests, procs, extVars>>

\* xtask/main.rs: step 2 of xtask_main, the same walk with xtask's collect_xconfig_metadata
XtaskCollectMetadata ==
    /\ lastOp' = "xtask_collect"
    /\ \E ms \in VisitOrders :
         LET r == CollectOver(ms, active, EmptyMap, TRUE) IN
         IF r.ok THEN opResult' = "ok" /\ feature_map' = r.fm
         ELSE opResult' = "manifest" /\ feature_map' = EmptyMap
    /\ UNCHANGED <<defconfig, configFile, active, all_keys, errors, manifests, procs, extVars>>

\* ------------------------------------------------------------------------
\* Feature mapper specification: two packages p and q, switches a and b
\* ------------------------------------------------------------------------
Switches == {"a", "b"}
Pkgs == {"p", "q"}
PkgName(d) == <<d>>
FeatureSpecs == {<<"q", "/", "x">>, <<"p", "/", "y">>, <<"x">>, <<"y">>, <<"q", "/", "x", "/", "y">>}

\* One declaration: package d lists `spec` under switch `key`.
Decls == [pkg : Pkgs, key : Switches, spec : FeatureSpecs]
DeclSeqs == UNION {[1..n -> Decls] : n \in 0..MaxDecls}

RECURSIVE SpecsOf(_, _, _)
SpecsOf(ds, d, k) ==
    IF ds = <<>> THEN <<>>
    ELSE (IF Head(ds).pkg = d /\ Head(ds).key = k THEN <<Head(ds).spec>> ELSE <<>>)
         \o SpecsOf(Tail(ds), d, k)

TableOf(ds, d) ==
    [k \in {x \in Switches : SpecsOf(ds, d, x) # <<>>} |-> SpecsOf(ds, d, k)]

\* The workspaces: p under crates/, q under crates/ or as entry/; at most one manifest
\* is defective (no package name, or not parsable).
Layouts == {[pkg \in Pkgs |-> IF pkg = "q" THEN qdir ELSE "crates"] : qdir \in {"crates", "entry"}}
KindMaps == {[pkg \in Pkgs |-> IF pkg = bad THEN k ELSE "ok"] :
                bad \in Pkgs, k \in {"ok", "noname", "malformed"}}

Workspaces ==
    {[d \in Pkgs |-> [kind |-> kinds[d], dir |-> lay[d], name |-> PkgName(d),
                      xconfig |-> TableOf(ds, d)]] :
        ds \in DeclSeqs, lay \in Layouts, kinds \in KindMaps}

\* The active lists load_active_xconfigs can return: no name twice.
ActiveLists == UNION {Perms(S) : S \in SUBSET Switches}

InitMapper ==
    /\ IdleResolver
    /\ defconfig = [kind |-> "missing", defs |-> EmptyMap]
    /\ configFile = Missing
    /\ lastOp = "init"
    /\ opResult = "ok"
    /\ active \in ActiveLists
    /\ all_keys = <<>>
    /\ errors = <<>>
    /\ manifests \in Workspaces
    /\ feature_map = EmptyMap
    /\ procs = NoProcs

NextMapper == CollectAllMetadata \/ XtaskCollectMetadata

SpecMapper == InitMapper /\ [][NextMapper]_vars

\* ========================================================================
\* Invocation interceptor: wrapper_main of wrapper.rs and of xtask/main.rs
\* ========================================================================
RECURSIVE Split(_, _)
\* str::split(sep): the pieces between the separators
Split(s, sep) ==
    IF ~HasSep(s, sep) THEN <<s>>
    ELSE <<SplitLeft(s, sep)>> \o Split(SplitRight(s, sep), sep)

\* .filter(|s| !s.is_empty())
NonEmpty(pieces) == SelectSeq(pieces, LAMBDA x : x # <<>>)

RECURSIVE Join(_, _)
\* [String].join(sep)
Join(pieces, sep) ==
    IF pieces = <<>> THEN <<>>
    ELSE IF Len(pieces) = 1 THEN Head(pieces)
    ELSE Head(pieces) \o <<sep>> \o Join(Tail(pieces), sep)

CrateNameFlag == <<"--crate-name">>

\* rustc_args.windows(2).find(|w| w[0] == "--crate-name").map(|w| w[1])
crate_name(rustc_args) ==
    LET hits == {i \in 1..(Len(rustc_args) - 1) : rustc_args[i] = CrateNameFlag} IN
    IF hits = {} THEN None
    ELSE Some(rustc_args[(CHOOSE i \in hits : \A j \in hits : i <= j) + 1])

\* cmd.arg("--cfg").arg(format!("feature=\"{f}\"")) for each f
CfgArgs(feats) ==
    Flatten([i \in DOMAIN feats |-> <<(<<"--cfg">>), (<<"feature=\"">> \o feats[i] \o <<"\"">>)>>])

\* An entry that names every unit: the `cn == name` test left out.
EntryMatchesAny(entry, name) == HasSep(entry, ":")

\* if let Some((cn, _)) = entry.split_once(':') { if cn == name { ... } }
EntryMatches(entry, name) == HasSep(entry, ":") /\ SplitLeft(entry, ":") = name

\* the body of the XCONFIG_FEATURES loop for one entry
EntryCfgArgs(entry, name) ==
    IF EntryMatches(entry, name)
    THEN CfgArgs(NonEmpty(Split(SplitRight(entry, ":"), ",")))
    ELSE <<>>

\* the body of the XCONFIG_EXTERNS loop for one entry
EntryExternArgs(entry, name) ==
    IF EntryMatches(entry, name) /\ HasSep(SplitRight(entry, ":"), "=")
    THEN LET ext_spec == SplitRight(entry, ":") IN
         <<(<<"--extern">>), (SplitLeft(ext_spec, "=") \o <<"=">> \o SplitRight(ext_spec, "="))>>
    ELSE <<>>

InjectFeatures(name, feat_env) ==
    LET entries == NonEmpty(Split(feat_env, ";"))
    IN  Flatten([i \in DOMAIN entries |-> EntryCfgArgs(entries[i], name)])

InjectExterns(name, extern_env) ==
    LET entries == NonEmpty(Split(extern_env, ";"))
    IN  Flatten([i \in DOMAIN entries |-> EntryExternArgs(entries[i], name)])

\* What wrapper_main adds to the command; `externs`: wrapper.rs also reads
\* XCONFIG_EXTERNS, the wrapper_main of xtask/main.rs does not.
Injected(args, env, externs) ==
    LET name == crate_name(SubSeq(args, 3, Len(args))) IN
    (IF name.set /\ env.features.set THEN InjectFeatures(name.val, env.features.val) ELSE <<>>)
    \o (IF externs /\ name.set /\ env.externs.set
        THEN InjectExterns(name.val, env.externs.val) ELSE <<>>)

\* A wrapper that puts what it injects in front of rustc's arguments.
WrapperCmdPrepending(args, env, externs) ==
    Injected(args, env, externs) \o SubSeq(args, 3, Len(args))

\* The arguments of the Command: cmd.args(rustc_args), then each injected cmd.arg(..)
WrapperCmd(args, env, externs) ==
    SubSeq(args, 3, Len(args)) \o Injected(args, env, externs)

\* wrapper_main up to cmd.status(): args[1] panics when cargo passed no compiler path
RunWrapper(i, externs) ==
    LET pr == procs[i] IN
    IF Len(pr.args) < 2
    THEN procs' = [procs EXCEPT ![i] = [pr EXCEPT !.pc = "exited", !.branch = "wrapper",
                                                  !.exit = Code(101)]]
    ELSE procs' = [procs EXCEPT ![i] = [pr EXCEPT !.pc = "rustc", !.branch = "wrapper",
                                                  !.cmd = WrapperCmd(pr.args, pr.env, externs),
                                                  !.childEnv = pr.env]]

ChildStatuses == {Code(0), Code(1), Code(101), Signal(9)}

\* std::process::exit(status.code().unwrap_or(1)); a spawn error returns Err from main
WrapperExit(st) == IF st.kind = "code" THEN Code(st.n) ELSE Code(1)

\* the real compiler ends (or could not be started) and wrapper_main exits
RustcExits(i) ==
    /\ procs[i].pc = "rustc"
    /\ \E st \in ChildStatuses \cup {SpawnError} :
         procs' = [procs EXCEPT ![i] = [procs[i] EXCEPT !.pc = "exited", !.child = st,
                                                        !.exit = WrapperExit(st)]]
    /\ UNCHANGED <<cfgVars, mapVars, extVars>>

\* cargo-xbuild's stand-in: wrapper_main of wrapper.rs
XbuildWrapperMain(i) ==
    /\ procs[i].pc = "start"
    /\ procs[i].bin = "xbuild"
    /\ RunWrapper(i, TRUE)
    /\ UNCHANGED <<cfgVars, mapVars, extVars>>

\* ========================================================================
\* xtask/main.rs: main, xtask_main
\* ========================================================================
\* A dispatch that looks for the value the orchestrator writes.
WrapperStateIfOne(env) == env.sentinel = Some(<<"1">>)

\* std::env::var("__XCONFIG_WRAPPER").is_ok()
WrapperState(env) == env.sentinel.set

\* main, wrapper branch
MainWrapper(i) ==
    /\ procs[i].pc = "start"
    /\ procs[i].bin = "xtask"
    /\ WrapperState(procs[i].env)
    /\ RunWrapper(i, FALSE)
    /\ UNCHANGED <<cfgVars, mapVars, extVars>>

\* toml::from_str::<ProjectConfig> of xtask: xconfig is a HashMap<String, bool>
XtaskParseConfig(ls) ==
    LET p == ParseProjectConfig(ls) IN
    IF p.ok /\ \A k \in DOMAIN p.map : is_bool(p.map[k])
    THEN [ok |-> TRUE, map |-> [k \in DOMAIN p.map |-> p.map[k].b]]
    ELSE [ok |-> FALSE, map |-> EmptyMap]

\* feature_map.iter().map(|(cn, fs)| format!("{cn}:{}", fs.join(","))).join(";")
features_env(fm, ordF) ==
    Join([i \in DOMAIN ordF |-> ordF[i] \o <<":">> \o Join(fm[ordF[i]], ",")], ";")

\* format!("{h:016x}") of DefaultHasher over the string, kept symbolic
Digest(str) == <<"hash(">> \o str \o <<")">>

RECURSIVE TrimStart(_)
TrimStart(str) == IF str # <<>> /\ Head(str) = " " THEN TrimStart(Tail(str)) ELSE str
RECURSIVE TrimEnd(_)
TrimEnd(str) ==
    IF str # <<>> /\ str[Len(str)] = " " THEN TrimEnd(SubSeq(str, 1, Len(str) - 1)) ELSE str
\* str::trim
Trim(str) == TrimEnd(TrimStart(str))

\* RUSTFLAGS: the inherited value, one --cfg=xconfig per active switch, the hash flag
Rustflags(env, act, fe) ==
    Trim((IF env.rustflags.set THEN env.rustflags.val ELSE <<>>)
         \o Flatten([i \in DOMAIN act |-> <<" ", "--cfg=xconfig=\"", act[i], "\"">>])
         \o (IF fe # <<>> THEN <<" ", "--cfg=__xfp=\"">> \o Digest(fe) \o <<"\"">> ELSE <<>>))

Exe == <<"xtask">>

\* the four .env(..) calls on the cargo Command, over the inherited environment
BuildEnv(env, rustflags, fe) ==
    [env EXCEPT !.rustc_wrapper = Some(Exe),
                !.sentinel = Some(<<"1">>),
                !.rustflags = Some(rustflags),
                !.features = Some(fe)]

DefaultArgs == <<(<<"build">>), (<<"-p">>), (<<"entry">>)>>

\* xtask_main up to Command::status(): read .config.toml, walk the manifests, encode
\* the environment, launch cargo.  Any `?` that fails ends the process with code 1.
XtaskMain(i) ==
    LET pr == procs[i]
        failed == [pr EXCEPT !.pc = "exited", !.branch = "xtask", !.resolved = TRUE,
                             !.exit = Code(1)]
        fails == procs' = [procs EXCEPT ![i] = failed] /\ UNCHANGED <<active, feature_map>>
        cargo_args == Tail(pr.args)
    IN
    IF ~config_exists THEN fails
    ELSE LET p == XtaskParseConfig(configFile.lines) IN
         IF ~p.ok THEN fails
         ELSE \E ordC \in Perms(DOMAIN p.map), ms \in VisitOrders :
                LET act == FilterSeq(ordC, {k \in DOMAIN p.map : p.map[k]})
                    r == CollectOver(ms, act, EmptyMap, TRUE)
                IN
                IF ~r.ok THEN fails
                ELSE \E ordF \in Perms(DOMAIN r.fm) :
                       LET fe == features_env(r.fm, ordF) IN
                       /\ procs' = [procs EXCEPT ![i] =
                             [pr EXCEPT !.pc = "cargo", !.branch = "xtask",
                                        !.resolved = TRUE, !.launched = TRUE,
                                        !.cmd = IF cargo_args = <<>> THEN DefaultArgs
                                                ELSE cargo_args,
                                        !.childEnv = BuildEnv(pr.env, Rustflags(pr.env, act, fe), fe)]]
                       /\ active' = act
                       /\ feature_map' = r.fm

\* main, orchestrator branch
MainXtask(i) ==
    /\ procs[i].pc = "start"
    /\ procs[i].bin = "xtask"
    /\ ~WrapperState(procs[i].env)
    /\ XtaskMain(i)
    /\ UNCHANGED <<defconfig, configFile, lastOp, opResult, all_keys, errors, manifests, extVars>>

\* The rustc argument lists cargo hands to the stand-in.
RustcArgLists ==
    { <<>>,
      <<(<<"-vV">>)>>,
      <<CrateNameFlag, (<<"q">>)>>,
      <<CrateNameFlag, (<<"q">>), (<<"--cfg">>), (<<"feature=\"u\"">>)>>,
      <<CrateNameFlag, (<<"p">>), CrateNameFlag, (<<"q">>)>>,
      <<(<<"--edition=2021">>), CrateNameFlag>> }

StandInArgs == {<<Exe, (<<"rustc">>)>> \o ra : ra \in RustcArgLists}

\* cargo, running under the orchestrator, starts $RUSTC_WRAPPER for one compilation unit
\* with the environment it was launched in
CargoStartsStandIn ==
    /\ procs["user"].pc = "cargo"
    /\ procs["user"].childEnv.rustc_wrapper.set
    /\ procs["cargo"].pc \in {"none", "exited"}
    /\ \E args \in StandInArgs :
         procs' = [procs EXCEPT !["cargo"] = Started("xtask", procs["user"].childEnv, args)]
    /\ UNCHANGED <<cfgVars, mapVars, extVars>>

\* if !status.success() { bail!(..) }; Ok(()): 0 when cargo succeeded, 1 otherwise
XtaskExit(st) == IF st = Code(0) THEN Code(0) ELSE Code(1)

\* cargo ends (or could not be started: no stand-in ran) and xtask_main returns
CargoExits(i) ==
    /\ procs[i].pc = "cargo"
    /\ i = "user" => procs["cargo"].pc \in {"none", "exited"}
    /\ \E st \in ChildStatuses \cup {s \in {SpawnError} : procs["cargo"].pc = "none"} :
         procs' = [procs EXCEPT ![i] = [procs[i] EXCEPT !.pc = "exited", !.child = st,
                                                        !.exit = XtaskExit(st)]]
    /\ UNCHANGED <<cfgVars, mapVars, extVars>>

\* ------------------------------------------------------------------------
\* Stand-in specification: one stand-in process of either binary, any tables
\* ------------------------------------------------------------------------
FeatureEntries ==
    { <<"q", ":", "x">>, <<"q", ":", "x", ",", "y">>, <<"p", ":", "y">>, <<"q">> }
ExternEntries ==
    { <<"q", ":", "e", "=", "/e.rlib">>, <<"p", ":", "e", "=", "/e.rlib">>, <<"q", ":", "e">> }

\* the tables of at most MaxEntries entries, joined with ";"
Tables(entries) == {Join(es, ";") : es \in UNION {[1..n -> entries] : n \in 0..MaxEntries}}
OptTables(entries) == {None} \cup {Some(t) : t \in Tables(entries)}

\* The xtask orchestrator sets XCONFIG_FEATURES only: a stand-in of the xtask binary
\* has no extern table.
StandInEnvs(bin) ==
    {[NoEnv EXCEPT !.sentinel = Some(<<"1">>), !.rustc_wrapper = Some(<<bin>>),
                   !.features = f, !.externs = e] :
        f \in OptTables(FeatureEntries),
        e \in IF bin = "xbuild" THEN OptTables(ExternEntries) ELSE {None}}

InitIdleStore ==
    /\ IdleResolver
    /\ defconfig = [kind |-> "missing", defs |-> EmptyMap]
    /\ lastOp = "init"
    /\ opResult = "ok"
    /\ active = <<>>
    /\ all_keys = <<>>
    /\ errors = <<>>
    /\ feature_map = EmptyMap

InitWrapper ==
    /\ InitIdleStore
    /\ configFile = Missing
    /\ manifests = EmptyMap
    /\ \E bin \in {"xtask", "xbuild"} :
         \E env \in StandInEnvs(bin), args \in StandInArgs \cup {<<Exe>>} :
            procs = [NoProcs EXCEPT !["cargo"] = Started(bin, env, args)]

NextWrapper == MainWrapper("cargo") \/ XbuildWrapperMain("cargo") \/ RustcExits("cargo")

SpecWrapper == InitWrapper /\ [][NextWrapper]_vars

\* ------------------------------------------------------------------------
\* Orchestrator specification: the user starts xtask; cargo starts the stand-ins
\* ------------------------------------------------------------------------
\* .config.toml as xtask reads it
XtaskConfigs ==
    { Missing,
      Text(UserLines([k \in Switches |-> "true"])),
      Text(UserLines([k \in Switches |-> IF k = "a" THEN "true" ELSE "false"])),
      Text(UserLines([k \in Switches |-> IF k = "a" THEN "true" ELSE "1"])) }

\* p declares the mapping table (cross-package specs), q declares none; p's manifest
\* may be unparsable
XtaskWorkspaces ==
    {w \in Workspaces :
        /\ \A d \in Pkgs : w[d].dir = "crates"
        /\ w["q"].kind = "ok" /\ w["q"].xconfig = EmptyMap
        /\ w["p"].kind \in {"ok", "malformed"}
        /\ \A k \in DOMAIN w["p"].xconfig : \A i \in DOMAIN w["p"].xconfig[k] :
              w["p"].xconfig[k][i] \in {<<"q", "/", "x">>, <<"p", "/", "y">>}}

UserEnvs ==
    {[NoEnv EXCEPT !.sentinel = s, !.rustflags = r] :
        s \in {None, Some(<<"1">>), Some(<<>>)}, r \in {None, Some(<<"-g">>)}}

UserArgs == {<<Exe>>, <<Exe, (<<"build">>)>>}

InitXtask ==
    /\ InitIdleStore
    /\ configFile \in XtaskConfigs
    /\ manifests \in XtaskWorkspaces
    /\ \E env \in UserEnvs, args \in UserArgs :
         procs = [NoProcs EXCEPT !["user"] = Started("xtask", env, args)]

NextXtask ==
    \/ \E i \in {"user", "cargo"} : MainWrapper(i)
    \/ \E i \in {"user", "cargo"} : MainXtask(i)
    \/ \E i \in {"user", "cargo"} : RustcExits(i)
    \/ CargoStartsStandIn
    \/ \E i \in {"user", "cargo"} : CargoExits(i)

SpecXtask == InitXtask /\ [][NextXtask]_vars

\* ========================================================================
\* Extern resolver  (xtask/src/resolve.rs)
\* ========================================================================
\* types.rs: DepSource
Git(url) == [t |-> "Git", v |-> url]
Path(path) == [t |-> "Path", v |-> path]
Registry == [t |-> "Registry", v |-> <<>>]

\* types.rs: ExternDep, MetadataDep, MetadataPackage
ExternDep(crate, pkg, source) == [crate_name |-> crate, pkg_name |-> pkg, source |-> source]
MetadataDep(name, source, optional, path) ==
    [name |-> name, source |-> source, optional |-> optional, path |-> path]
MetadataPackage(name, manifest_path, dependencies) ==
    [name |-> name, manifest_path |-> manifest_path, dependencies |-> dependencies]

\* the argument lists try_metadata runs cargo with
NoDepsQuery == <<"metadata", "--format-version=1", "--no-deps">>
FullQuery == <<"metadata", "--format-version=1">>

\* What a query answers: status "fail" (try_metadata returns Err), "ok" (stdout parses
\* as CargoMetadata), "garbage" (cargo succeeded, stdout does not parse).
QueryOk(pkgs) == [status |-> "ok", packages |-> pkgs]
QueryGarbage == [status |-> "garbage", packages |-> <<>>]

\* The Result of resolve_extern_map; `at` is the manifest a manifest error names.
ResolveOk(em) == [status |-> "ok", map |-> em, at |-> <<>>]
ResolveErr(kind, at) == [status |-> kind, map |-> EmptyMap, at |-> at]

\* the fall-back test inverted
has_all_inverted(fm, pkgs) ==
    ~(\A k \in DOMAIN fm : \E i \in DOMAIN pkgs : pkgs[i].name = k)

\* feature_map.keys().all(|k| meta.packages.iter().any(|p| &p.name == k))
has_all(fm, pkgs) ==
    \A k \in DOMAIN fm : \E i \in DOMAIN pkgs : pkgs[i].name = k

\* the source classification of one optional dependency
DepSourceOf(d) ==
    IF d.source.set
    THEN IF d.source.val # <<>> /\ Head(d.source.val) = "git+"
         THEN Git(Split(Tail(d.source.val), "#")[1])
         ELSE Registry
    ELSE IF d.path.set THEN Path(d.path.val) ELSE Registry

\* pkg.dependencies.iter().filter(|d| d.optional).map(..).collect::<HashMap>():
\* of two optional dependencies of one name the later one stays
dep_source_lookup(deps) ==
    LET opt == SelectSeq(deps, LAMBDA d : d.optional)
        last(n) == CHOOSE i \in DOMAIN opt :
                      opt[i].name = n /\ \A j \in DOMAIN opt : opt[j].name = n => j <= i
    IN  [n \in {opt[i].name : i \in DOMAIN opt} |-> DepSourceOf(opt[last(n)])]

\* dep_name.replace('-', "_")
Normalize(name) == [i \in DOMAIN name |-> IF name[i] = "-" THEN "_" ELSE name[i]]

DepPrefix == "dep:"
\* entry.strip_prefix("dep:")
strip_prefix_dep(entry) ==
    IF entry # <<>> /\ Head(entry) = DepPrefix THEN Some(Tail(entry)) ELSE None

\* What one activation entry pushes: nothing unless it is dep:X; for dep:X an ExternDep
\* whose source is the lookup's, or Registry when the lookup has no X.
EntryExterns(entry, lookup) ==
    LET d == strip_prefix_dep(entry) IN
    IF d.set
    THEN <<ExternDep(Normalize(d.val), d.val,
                     IF d.val \in DOMAIN lookup THEN lookup[d.val] ELSE Registry)>>
    ELSE <<>>

\* for entry in activates
ActivatesExterns(activates, lookup) ==
    Flatten([i \in DOMAIN activates |-> EntryExterns(activates[i], lookup)])

\* for feat_name in features: the features the table does not have push nothing
FeatureExterns(features, feat_table, lookup) ==
    Flatten([i \in DOMAIN features |->
                IF features[i] \in DOMAIN feat_table
                THEN ActivatesExterns(feat_table[features[i]], lookup)
                ELSE <<>>])

\* extern_map.entry(crate_name).or_default().push(..), once per ExternDep
PushExterns(em, cn, deps) ==
    IF deps = <<>> THEN em
    ELSE [n \in DOMAIN em \cup {cn} |->
             IF n = cn THEN (IF n \in DOMAIN em THEN em[n] ELSE <<>>) \o deps ELSE em[n]]

\* std::fs::read_to_string(manifest_path) and toml::from_str::<DepCargoToml>
ReadManifest(files, path) ==
    IF path \in DOMAIN files THEN files[path]
    ELSE [kind |-> "unreadable", features |-> None]

RECURSIVE ResolveCrates(_, _, _, _, _)
\* for (crate_name, features) in feature_map, in the map's iteration order `ord`
ResolveCrates(ord, fm, pkgs, files, em) ==
    IF ord = <<>> THEN ResolveOk(em)
    ELSE LET cn == Head(ord)
             found == {i \in DOMAIN pkgs : pkgs[i].name = cn}
         IN
         IF found = {} THEN ResolveCrates(Tail(ord), fm, pkgs, files, em)
         ELSE LET pkg == pkgs[CHOOSE i \in found : \A j \in found : j <= i]
                  file == ReadManifest(files, pkg.manifest_path)
              IN
              IF file.kind # "ok" THEN ResolveErr("manifest", pkg.manifest_path)
              ELSE IF ~file.features.set THEN ResolveCrates(Tail(ord), fm, pkgs, files, em)
              ELSE ResolveCrates(Tail(ord), fm, pkgs, files,
                      PushExterns(em, cn,
                          FeatureExterns(fm[cn], file.features.val,
                                         dep_source_lookup(pkg.dependencies))))

\* resolve_extern_map_from_metadata(metadata_json, feature_map)
resolve_extern_map_from_metadata(answer, fm, ordF, files) ==
    IF answer.status # "ok" THEN ResolveErr("json", <<>>)
    ELSE ResolveCrates(ordF, fm, answer.packages, files, EmptyMap)

\* resolve_extern_map(root, feature_map): the queries it issues and the Result
resolve_extern_map(fm, g, ordF) ==
    LET both == <<NoDepsQuery, FullQuery>>
        viaFull == IF g.full.status = "fail"
                   THEN [queries |-> both, result |-> ResolveErr("graph", <<>>)]
                   ELSE [queries |-> both,
                         result |-> resolve_extern_map_from_metadata(g.full, fm, ordF, g.files)]
    IN
    IF DOMAIN fm = {} THEN [queries |-> <<>>, result |-> ResolveOk(EmptyMap)]
    ELSE IF g.light.status = "fail" THEN viaFull
    ELSE IF g.light.status = "garbage"
         THEN [queries |-> <<NoDepsQuery>>, result |-> ResolveErr("json", <<>>)]
    ELSE IF has_all(fm, g.light.packages)
         THEN [queries |-> <<NoDepsQuery>>,
               result |-> resolve_extern_map_from_metadata(g.light, fm, ordF, g.files)]
    ELSE viaFull

\* One call of resolve_extern_map on the feature map in hand.
ResolveExternMap ==
    /\ \E ordF \in Perms(DOMAIN feature_map) :
         LET r == resolve_extern_map(feature_map, graph, ordF) IN
         /\ queries' = r.queries
         /\ extern_result' = r.result
    /\ UNCHANGED <<cfgVars, mapVars, procs, graph, passes>>

\* ------------------------------------------------------------------------
\* Resolver specification: packages p and q, features x and y, dependencies foo and
\* my-dep
\* ------------------------------------------------------------------------
FeatX == <<"x">>
FeatY == <<"y">>
Foo == <<"foo">>
MyDep == <<"my", "-", "dep">>
DepEntry(name) == <<DepPrefix>> \o name
ManifestPath(d) == <<d, "/Cargo.toml">>

\* the [features] tables q's manifest may declare: none, x activating nothing, dep:foo
\* once, through two features, and twice; dep:my-dep beside a plain feature reference
QFeatureTables ==
    {None} \cup
    {Some(t) : t \in {[f \in {FeatX} |-> <<>>],
                      [f \in {FeatX} |-> <<DepEntry(Foo)>>],
                      [f \in {FeatX, FeatY} |-> <<DepEntry(Foo)>>],
                      [f \in {FeatX} |-> <<DepEntry(MyDep), <<"std">>>>],
                      [f \in {FeatX} |-> <<DepEntry(Foo), DepEntry(Foo)>>]}}
PFeatureTables == {None, Some([f \in {FeatY} |-> <<DepEntry(Foo)>>])}

\* the dependencies `cargo metadata` lists for q: none; foo optional from git; foo not
\* optional; foo by path and my-dep from the registry, both optional
QDependencies ==
    { <<>>,
      <<MetadataDep(Foo, Some(<<"git+", "url", "#", "rev">>), TRUE, None)>>,
      <<MetadataDep(Foo, None, FALSE, Some(<<"../foo">>))>>,
      <<MetadataDep(Foo, None, TRUE, Some(<<"../foo">>)),
        MetadataDep(MyDep, Some(<<"registry+", "index">>), TRUE, None)>> }
PDependencies == {<<>>}

\* A package of the resolver's world: absent, a workspace member (both queries list it)
\* or outside the workspace (only the full query lists it); its manifest is readable
\* and parsable, unreadable, or malformed.
AbsentPackage == [where |-> "absent", kind |-> "unreadable", features |-> None, deps |-> <<>>]
PackageStates(tables, deplists) ==
    {AbsentPackage}
    \cup {[where |-> w, kind |-> k, features |-> None, deps |-> <<>>] :
             w \in {"member", "outside"}, k \in {"unreadable", "malformed"}}
    \cup {[where |-> w, kind |-> "ok", features |-> f, deps |-> ds] :
             w \in {"member", "outside"}, f \in tables, ds \in deplists}

ResolverWorlds ==
    {[d \in Pkgs |-> IF d = "p" THEN wp ELSE wq] :
        wp \in PackageStates(PFeatureTables, PDependencies),
        wq \in PackageStates(QFeatureTables, QDependencies)}

\* meta.packages of a query that lists the packages found in `places`
PackagesOf(w, places) ==
    LET listed == SelectSeq(<<"p", "q">>, LAMBDA d : w[d].where \in places)
    IN  [i \in DOMAIN listed |->
            MetadataPackage(PkgName(listed[i]), ManifestPath(listed[i]), w[listed[i]].deps)]

QueryAnswer(status, pkgs) ==
    IF status = "ok" THEN QueryOk(pkgs)
    ELSE IF status = "garbage" THEN QueryGarbage ELSE QueryFails

\* `cargo metadata --no-deps` lists the workspace members, `cargo metadata` every
\* package; either may fail or print what does not parse.
GraphOf(w, ls, fs) ==
    [light |-> QueryAnswer(ls, PackagesOf(w, {"member"})),
     full |-> QueryAnswer(fs, PackagesOf(w, {"member", "outside"})),
     files |-> [path \in {ManifestPath(d) : d \in {x \in Pkgs : /\ w[x].where # "absent"
                                                                /\ w[x].kind # "unreadable"}} |->
                  LET d == CHOOSE x \in Pkgs : ManifestPath(x) = path
                  IN  [kind |-> w[d].kind, features |-> w[d].features]]]

QueryStatuses == {"ok", "fail", "garbage"}
Graphs == {GraphOf(w, ls, fs) : w \in ResolverWorlds, ls \in QueryStatuses, fs \in QueryStatuses}

\* feature maps the mappers hand over (a feature may be listed twice)
ResolverFeatureMaps ==
    { EmptyMap,
      [n \in {PkgName("q")} |-> <<FeatX>>],
      [n \in {PkgName("q")} |-> <<FeatX, FeatY>>],
      [n \in {PkgName("q")} |-> <<FeatX, FeatX>>],
      [n \in {PkgName("p")} |-> <<FeatY>>],
      [n \in {PkgName("p"), PkgName("q")} |-> IF n = PkgName("p") THEN <<FeatY>> ELSE <<FeatX>>] }

InitResolve ==
    /\ defconfig = [kind |-> "missing", defs |-> EmptyMap]
    /\ configFile = Missing
    /\ lastOp = "init"
    /\ opResult = "ok"
    /\ active = <<>>
    /\ all_keys = <<>>
    /\ errors = <<>>
    /\ manifests = EmptyMap
    /\ feature_map \in ResolverFeatureMaps
    /\ procs = NoProcs
    /\ graph \in Graphs
    /\ queries = <<>>
    /\ extern_result = NoResolve
    /\ passes = NoPasses

NextResolve == ResolveExternMap

SpecResolve == InitResolve /\ [][NextResolve]_vars

\* ========================================================================
\* Generated files  (config.rs: sync_cargo_config, sync_vscode_settings)
\* ========================================================================
\* str::to_uppercase on a switch name
to_uppercase(c) ==
    IF c = "a" THEN "A" ELSE IF c = "b" THEN "B" ELSE IF c = "c" THEN "C"
    ELSE IF c = "d" THEN "D" ELSE c

\* String's Ord over the characters the feature strings are made of (byte order)
ByteOrder == <<"/", "p", "q", "x", "y">>
ByteRank(ch) == CHOOSE i \in DOMAIN ByteOrder : ByteOrder[i] = ch

RECURSIVE StrLess(_, _)
\* s < t, lexicographically
StrLess(s, t) ==
    IF t = <<>> THEN FALSE
    ELSE IF s = <<>> THEN TRUE
    ELSE IF Head(s) = Head(t) THEN StrLess(Tail(s), Tail(t))
    ELSE ByteRank(Head(s)) < ByteRank(Head(t))

\* BTreeSet<String>::into_iter(): the strings in ascending order, each once
SortedStrings(S) ==
    CHOOSE p \in Perms(S) : \A i, j \in DOMAIN p : i < j => StrLess(p[i], p[j])

\* Path::parent of a relative path: what precedes the last separator
Parent(path) ==
    IF ~HasSep(path, "/") THEN <<>>
    ELSE LET last == CHOOSE i \in DOMAIN path :
                        path[i] = "/" /\ \A j \in (i + 1)..Len(path) : path[j] # "/"
         IN  SubSeq(path, 1, last - 1)

\* the `flags` vector of sync_cargo_config; ordR is the iteration order of rlib_paths
CargoConfigFlags(act, keys, rlib_paths, ordR) ==
    [i \in DOMAIN act |-> <<"\"--cfg=", to_uppercase(act[i]), "\"">>]
    \o [i \in DOMAIN keys |-> <<"\"--check-cfg=cfg(", to_uppercase(keys[i]), ")\"">>]
    \o << <<"\"--check-cfg=cfg(__xfp,values(any()))\"">> >>
    \o [i \in DOMAIN ordR |-> <<"\"--extern=", ordR[i], "=">> \o rlib_paths[ordR[i]] \o <<"\"">>]
    \o (IF ordR = <<>> THEN <<>>
        ELSE << <<"\"-Ldependency=">> \o Parent(rlib_paths[ordR[1]]) \o <<"\"">> >>)

\* the two comment lines the content starts with (dash and quotes in plain ASCII)
CargoConfigHeader ==
    <<"# Auto-generated by cargo-xbuild -- do not edit manually.\n",
      "# Run 'cargo xbuild' to regenerate after changing .config.toml.\n">>

\* the content sync_cargo_config writes to .cargo/config.toml
sync_cargo_config(act, keys, rlib_paths, ordR) ==
    CargoConfigHeader
    \o <<"\n[build]\nrustflags = [\n    ">>
    \o Join(CargoConfigFlags(act, keys, rlib_paths, ordR), ", \n    ")
    \o <<"\n]\n">>

\* the BTreeSet of "crate/feat" strings, in ascending order
VscodeFeatures(fm) ==
    SortedStrings(UNION {{n \o <<"/">> \o fm[n][i] : i \in DOMAIN fm[n]} : n \in DOMAIN fm})

\* the content sync_vscode_settings writes to .vscode/settings.json: an object of the
\* cfgs (the active names upper-cased, in the order of `active`) and the sorted
\* features; serde_json keeps the keys of an object sorted
sync_vscode_settings(act, fm) ==
    <<"{", "\"rust-analyzer.cargo.cfgs\":", "[">>
    \o Join([i \in DOMAIN act |-> <<"\"", to_uppercase(act[i]), "\"">>], ",")
    \o <<"]", ",", "\"rust-analyzer.cargo.features\":", "[">>
    \o Join([i \in DOMAIN VscodeFeatures(fm) |-> <<"\"">> \o VscodeFeatures(fm)[i] \o <<"\"">>], ",")
    \o <<"]", "}", "\n">>

\* ========================================================================
\* Resolution passes: load, map, resolve, encode, generate -- twice in a row
\* ========================================================================
\* A pass runs its steps in the order of their data dependencies: the active list
\* feeds the mapper, the feature map feeds the resolver and the encoder, the active
\* list, all_keys and the rlib paths feed the generated files.  pc names the step the
\* pass runs next.  The second pass starts when the first has ended.
Turn(r) == r = 1 \/ passes[1].pc = "done"

PassFails(r) == passes' = [passes EXCEPT ![r].pc = "done", ![r].ok = FALSE]

\* load_active_xconfigs, for the pass
PassLoad(r) ==
    /\ Turn(r)
    /\ passes[r].pc = "load"
    /\ LET d == load_defconfig IN
       IF ~d.ok \/ ~config_exists THEN PassFails(r)
       ELSE LET p == ParseProjectConfig(configFile.lines) IN
            IF ~p.ok THEN PassFails(r)
            ELSE \E o \in LoadOutcomes(p.map, d.defs) :
                    IF o.errs # <<>> THEN PassFails(r)
                    ELSE passes' = [passes EXCEPT ![r].pc = "collect",
                                                  ![r].active = o.active,
                                                  ![r].all_keys = o.all_keys]
    /\ UNCHANGED <<cfgVars, mapVars, procs, graph, queries, extern_result>>

\* The visiting orders of collect_all_metadata over the manifests ws.
WalkOrders(ws) ==
    {[i \in DOMAIN o |-> ws[o[i]]] :
        o \in {c \o e : c \in Perms({d \in DOMAIN ws : ws[d].dir = "crates"}),
                        e \in Perms({d \in DOMAIN ws : ws[d].dir = "entry"})}}

\* collect_all_metadata, for the pass
PassCollect(r) ==
    /\ Turn(r)
    /\ passes[r].pc = "collect"
    /\ \E ms \in WalkOrders(passes[r].world.workspace) :
         LET c == CollectOver(ms, passes[r].active, EmptyMap, FALSE) IN
         IF ~c.ok THEN PassFails(r)
         ELSE passes' = [passes EXCEPT ![r].pc = "resolve", ![r].feature_map = c.fm]
    /\ UNCHANGED <<cfgVars, mapVars, procs, graph, queries, extern_result>>

\* resolve_extern_map, for the pass
PassResolve(r) ==
    /\ Turn(r)
    /\ passes[r].pc = "resolve"
    /\ \E ordF \in Perms(DOMAIN passes[r].feature_map) :
         LET res == resolve_extern_map(passes[r].feature_map, passes[r].world.graph, ordF).result
         IN  IF res.status # "ok" THEN PassFails(r)
             ELSE passes' = [passes EXCEPT ![r].pc = "encode", ![r].extern_map = res.map]
    /\ UNCHANGED <<cfgVars, mapVars, procs, graph, queries, extern_result>>

\* step 3 of xtask_main: features_env and RUSTFLAGS with the hash flag
PassEncode(r) ==
    /\ Turn(r)
    /\ passes[r].pc = "encode"
    /\ \E ordF \in Perms(DOMAIN passes[r].feature_map) :
         passes' = [passes EXCEPT
                       ![r].pc = "sync_cargo",
                       ![r].rustflags = Rustflags(NoEnv, passes[r].active,
                                                  features_env(passes[r].feature_map, ordF))]
    /\ UNCHANGED <<cfgVars, mapVars, procs, graph, queries, extern_result>>

\* sync_cargo_config, for the pass: the file holds `content` afterwards, written or
\* found equal
PassSyncCargo(r) ==
    /\ Turn(r)
    /\ passes[r].pc = "sync_cargo"
    /\ \E ordR \in Perms(DOMAIN passes[r].world.rlib_paths) :
         passes' = [passes EXCEPT
                       ![r].pc = "sync_vscode",
                       ![r].cargo_config = sync_cargo_config(passes[r].active, passes[r].all_keys,
                                                             passes[r].world.rlib_paths, ordR)]
    /\ UNCHANGED <<cfgVars, mapVars, procs, graph, queries, extern_result>>

\* sync_vscode_settings, for the pass
PassSyncVscode(r) ==
    /\ Turn(r)
    /\ passes[r].pc = "sync_vscode"
    /\ passes' = [passes EXCEPT
                     ![r].pc = "done",
                     ![r].vscode_settings = sync_vscode_settings(passes[r].active,
                                                                 passes[r].feature_map)]
    /\ UNCHANGED <<cfgVars, mapVars, procs, graph, queries, extern_result>>

\* ------------------------------------------------------------------------
\* Passes specification: one schema and config, a world for each pass
\* ------------------------------------------------------------------------
\* p's mapping table: none; a -> q/x; a -> q/x and b -> y (p itself)
PassTables ==
    <<EmptyMap,
      [k \in {"a"} |-> << <<"q", "/", "x">> >>],
      [k \in {"a", "b"} |-> IF k = "a" THEN << <<"q", "/", "x">> >> ELSE << <<"y">> >>]>>
PassWorkspace(t) ==
    [d \in Pkgs |-> [kind |-> "ok", dir |-> "crates", name |-> PkgName(d),
                     xconfig |-> IF d = "p" THEN t ELSE EmptyMap]]

\* q's feature x activates nothing, or the optional dependency foo
PassGraph(activates, deps) ==
    GraphOf([d \in Pkgs |->
               IF d = "q"
               THEN [where |-> "member", kind |-> "ok",
                     features |-> Some([f \in {FeatX} |-> activates]), deps |-> deps]
               ELSE [where |-> "member", kind |-> "ok", features |-> None, deps |-> <<>>]],
            "ok", "ok")
PlainGraph == PassGraph(<<>>, <<>>)
FooGraph == PassGraph(<<DepEntry(Foo)>>, <<MetadataDep(Foo, None, TRUE, Some(<<"../foo">>))>>)

\* the rlib paths handed to sync_cargo_config: none, or those of foo and my_dep
NoRlibs == EmptyMap
TwoRlibs ==
    [n \in {"foo", "my_dep"} |->
        IF n = "foo" THEN <<"deps", "/", "libfoo.rlib">> ELSE <<"deps", "/", "libmy_dep.rlib">>]

World(t, g, rl) == [workspace |-> PassWorkspace(t), graph |-> g, rlib_paths |-> rl]
PassWorlds ==
    { World(PassTables[1], PlainGraph, NoRlibs),
      World(PassTables[2], PlainGraph, NoRlibs),
      World(PassTables[2], FooGraph, NoRlibs),
      World(PassTables[2], FooGraph, TwoRlibs),
      World(PassTables[3], FooGraph, TwoRlibs) }

\* the schema: every name a bool switch
PassDefConfig ==
    [kind |-> "ok",
     defs |-> [k \in Names |-> [description |-> NoDesc, typ |-> "bool", default |-> FALSE]]]

\* .config.toml: every switch on; only a on; no file
PassConfigs ==
    { Text(UserLines([k \in Names |-> "true"])),
      Text(UserLines([k \in Names |-> IF k = "a" THEN "true" ELSE "false"])),
      Missing }

InitPasses ==
    /\ defconfig = PassDefConfig
    /\ configFile \in PassConfigs
    /\ lastOp = "init"
    /\ opResult = "ok"
    /\ active = <<>>
    /\ all_keys = <<>>
    /\ errors = <<>>
    /\ manifests = EmptyMap
    /\ feature_map = EmptyMap
    /\ procs = NoProcs
    /\ graph = NoGraph
    /\ queries = <<>>
    /\ extern_result = NoResolve
    /\ \E w1 \in PassWorlds, w2 \in PassWorlds :
         passes = [r \in {1, 2} |->
                      [NoPass EXCEPT !.pc = "load", !.world = IF r = 1 THEN w1 ELSE w2]]

NextPasses ==
    \/ \E r \in {1, 2} : PassLoad(r)
    \/ \E r \in {1, 2} : PassCollect(r)
    \/ \E r \in {1, 2} : PassResolve(r)
    \/ \E r \in {1, 2} : PassEncode(r)
    \/ \E r \in {1, 2} : PassSyncCargo(r)
    \/ \E r \in {1, 2} : PassSyncVscode(r)

SpecPasses == InitPasses /\ [][NextPasses]_vars

\* ========================================================================
\* Properties of the schema and config store
\* ========================================================================
\* What the last load_active_xconfigs validated: the parsed [xconfig] table of
\* .config.toml and the definitions of defconfig.toml.
Validated == lastOp = "load" /\ opResult \in {"ok", "validation"}
CfgMap == ParseProjectConfig(configFile.lines).map
Defs == defconfig.defs

\* The value kind each declared type admits; a type outside bool/int/string admits none.
Admits(typ, val) ==
    \/ typ = "bool" /\ val.t = "Boolean"
    \/ typ = "int" /\ val.t = "Integer"
    \/ typ = "string" /\ val.t = "String"

\* The violations of a config against a schema, as <<class, key>> pairs.
Violations(map, defs) ==
    {<<"unknown", k>> : k \in DOMAIN map \ DOMAIN defs}
    \cup {<<"missing", k>> : k \in DOMAIN defs \ DOMAIN map}
    \cup {<<"type", k>> : k \in {x \in DOMAIN defs \cap DOMAIN map : ~Admits(defs[x].typ, map[x])}}

ErrClass(e) == IF e.kind \in {"mismatch", "unsupported"} THEN "type" ELSE e.kind
Reported == {<<ErrClass(errors[i]), errors[i].key>> : i \in DOMAIN errors}

\* C1: validate_config reports every violation in one pass.  Whenever validation has
\* run, the reported errors are exactly the violations of the config against the schema,
\* one error each (one per unknown key, one per missing key, one per present key whose
\* value does not have the declared type), and validation succeeds only when there is
\* none.
C1_AllViolationsReported ==
    Validated =>
        /\ Reported = Violations(CfgMap, Defs)
        /\ Len(errors) = Cardinality(Violations(CfgMap, Defs))
        /\ (opResult = "ok") <=> (Violations(CfgMap, Defs) = {})

\* A validation that reported, in one pass, an error of the unknown-key loop together
\* with a type error of the definitions loop.
C1_Witness ==
    /\ Validated
    /\ opResult = "validation"
    /\ \E i, j \in DOMAIN errors :
         errors[i].kind = "unknown" /\ errors[j].kind = "mismatch"

\* C2: when the config file passes validation, the active list holds only names of the
\* schema and all_keys is the schema's key set, each name once.
C2_ActiveWithinSchema ==
    (lastOp = "load" /\ opResult = "ok") =>
        /\ Range(active) \subseteq DOMAIN Defs
        /\ Range(all_keys) = DOMAIN Defs
        /\ Len(all_keys) = Cardinality(DOMAIN Defs)

\* A successful load whose active set is a non-empty proper subset of the schema.
C2_Witness ==
    /\ lastOp = "load" /\ opResult = "ok"
    /\ active # <<>>
    /\ Range(active) # DOMAIN Defs

\* The switches whose schema default is true.
DefaultTrue(defs) == {k \in DOMAIN defs : defs[k].default}

\* .config.toml is the file ensure_config_toml generates from the current schema.
IsGenerated == defconfig.kind = "ok" /\ configFile = Text(GeneratedLines(Defs))

\* C3: round trip.  For every schema whose switches are declared bool, int or string,
\* loading the generated config file passes validation with zero errors and the active
\* set is the set of switches whose default is true.
C3_RoundTrip ==
    (/\ lastOp = "load"
     /\ IsGenerated
     /\ \A k \in DOMAIN Defs : Defs[k].typ \in {"bool", "int", "string"})
    => (/\ opResult = "ok"
        /\ errors = <<>>
        /\ Range(active) = DefaultTrue(Defs))

\* C4: ensure_config_toml never overwrites.  A step of ensure_config_toml taken while
\* .config.toml exists leaves the file as it is; the one change it can make is from
\* "missing" to the file generated from the schema defaults.
C4_NeverOverwrites ==
    [][lastOp' = "ensure" =>
          /\ config_exists => configFile' = configFile
          /\ configFile' # configFile =>
                (~config_exists /\ defconfig.kind = "ok"
                 /\ configFile' = Text(GeneratedLines(Defs)))]_vars

\* ensure_config_toml has run over a file that is not the one it would generate, and
\* the file is still there.
C4_Witness ==
    /\ lastOp = "ensure"
    /\ defconfig.kind = "ok"
    /\ config_exists
    /\ ~IsGenerated

\* ========================================================================
\* Properties of the feature mapper
\* ========================================================================
Collected == lastOp \in {"collect", "xtask_collect"} /\ opResult = "ok"

\* The (package, feature) pairs of the feature map.
MapPairs == UNION {{<<n, feature_map[n][i]>> : i \in DOMAIN feature_map[n]} : n \in DOMAIN feature_map}

\* The target a FeatureSpec declared by package d names: (named package, suffix) when
\* it has a separator, (declaring package, whole spec) when it has none.
SpecTarget(d, spec) ==
    IF HasSep(spec, "/") THEN <<SplitLeft(spec, "/"), SplitRight(spec, "/")>>
    ELSE <<manifests[d].name, spec>>

\* The targets of the specs listed under active switches.  A manifest without a package
\* name declares no package a bare spec could belong to.
ActiveTargets ==
    UNION {UNION {{SpecTarget(d, manifests[d].xconfig[k][i]) :
                     i \in {x \in DOMAIN manifests[d].xconfig[k] :
                              HasSep(manifests[d].xconfig[k][x], "/") \/ has_name(manifests[d])}} :
                  k \in Range(active) \cap DOMAIN manifests[d].xconfig} :
           d \in DOMAIN manifests}

\* C5: the targeting rule.  After a successful pass of the feature mapper, the features
\* in the map are exactly the targets of the specs under active switches: "pkg/feat"
\* adds feat to pkg, a spec without separator adds the whole spec to the declaring
\* package, and specs under inactive switches add nothing.
C5_TargetingRule == Collected => MapPairs = ActiveTargets

\* C6: set semantics.  After a successful pass of the feature mapper no package's
\* feature collection holds the same feature name twice.
C6_NoDuplicateFeatures ==
    Collected =>
        \A n \in DOMAIN feature_map : \A i, j \in DOMAIN feature_map[n] :
            feature_map[n][i] = feature_map[n][j] => i = j

\* ========================================================================
\* Properties of the invocation interceptor
\* ========================================================================
\* Process i went through wrapper_main and handed a command to the real compiler.
Delegated(i) == procs[i].branch = "wrapper" /\ procs[i].pc \in {"rustc", "exited"} /\ Len(procs[i].args) >= 2

Orig(i) == SubSeq(procs[i].args, 3, Len(procs[i].args))
Cmd(i) == procs[i].cmd

\* s is a sequence of flag/value pairs, each flag a --cfg or an --extern
FlagPairs(s) ==
    /\ Len(s) % 2 = 0
    /\ \A k \in DOMAIN s : k % 2 = 1 => s[k] \in {<<"--cfg">>, <<"--extern">>}

\* C7 as stated: every injected flag comes before the original arguments, which follow
\* unmodified and in order.
C7_InjectedBeforeOriginal ==
    \A i \in DOMAIN procs :
        Delegated(i) =>
            /\ Len(Cmd(i)) >= Len(Orig(i))
            /\ SubSeq(Cmd(i), Len(Cmd(i)) - Len(Orig(i)) + 1, Len(Cmd(i))) = Orig(i)
            /\ FlagPairs(SubSeq(Cmd(i), 1, Len(Cmd(i)) - Len(Orig(i))))

\* C7, amended: the original arguments come first, unmodified and in their order, and
\* every injected flag follows them.
C7_InjectedAfterOriginal ==
    \A i \in DOMAIN procs :
        Delegated(i) =>
            /\ Len(Cmd(i)) >= Len(Orig(i))
            /\ SubSeq(Cmd(i), 1, Len(Orig(i))) = Orig(i)
            /\ FlagPairs(SubSeq(Cmd(i), Len(Orig(i)) + 1, Len(Cmd(i))))

\* What follows the original arguments in the command.
Added(i) == SubSeq(Cmd(i), Len(Orig(i)) + 1, Len(Cmd(i)))

\* A stand-in injected a --cfg and an --extern into a command line that already
\* carried a --cfg of its own.
C7_Witness ==
    \E i \in DOMAIN procs :
        /\ Delegated(i)
        /\ \E k \in DOMAIN Orig(i) : Orig(i)[k] = <<"--cfg">>
        /\ \E k, l \in DOMAIN Added(i) : Added(i)[k] = <<"--cfg">> /\ Added(i)[l] = <<"--extern">>

\* The entries of an environment table that name the unit.
EntriesFor(tab, unit) ==
    IF ~tab.set \/ ~unit.set THEN <<>>
    ELSE SelectSeq(NonEmpty(Split(tab.val, ";")),
                   LAMBDA e : HasSep(e, ":") /\ SplitLeft(e, ":") = unit.val)

\* The features an entry `unit:f1,f2` lists; the extern `name=path` an entry lists.
ListedFeatures(e) == NonEmpty(Split(SplitRight(e, ":"), ","))
ListsExtern(e) == HasSep(SplitRight(e, ":"), "=")

ExpectedCfgFlags(i) ==
    LET es == EntriesFor(procs[i].env.features, crate_name(Orig(i)))
        fs == Flatten([k \in DOMAIN es |-> ListedFeatures(es[k])])
    IN  Flatten([k \in DOMAIN fs |-> <<(<<"--cfg">>), (<<"feature=\"">> \o fs[k] \o <<"\"">>)>>])

ExpectedExternFlags(i) ==
    LET es == SelectSeq(EntriesFor(procs[i].env.externs, crate_name(Orig(i))), ListsExtern)
    IN  Flatten([k \in DOMAIN es |-> <<(<<"--extern">>), SplitRight(es[k], ":")>>])

MirrorsChild(i) == procs[i].pc = "exited" /\ procs[i].child.kind \in {"code", "signal"}

\* C9: exit-code mirroring.  A process that ends because its delegated process (the
\* compiler for a stand-in, the build for the orchestrator) ended, ends the way that
\* process did: with the same exit code, or by the same signal.
C9_ExitMirrored ==
    \A i \in DOMAIN procs : MirrorsChild(i) => procs[i].exit = procs[i].child

\* C10: the dispatch is one-shot and non-recursive.  A process started with the
\* sentinel set takes the wrapper branch, never resolves configuration and never
\* launches the build; the orchestrator launches the build with the sentinel set, so
\* every stand-in cargo starts beneath it has the sentinel and takes the wrapper branch.
C10_OneShotDispatch ==
    \A i \in DOMAIN procs :
        LET pr == procs[i] IN
        /\ (pr.pc \notin {"none", "start"} /\ pr.env.sentinel.set)
              => (pr.branch = "wrapper" /\ ~pr.resolved /\ ~pr.launched /\ pr.pc # "cargo")
        /\ pr.launched => pr.childEnv.sentinel.set
        /\ (i = "cargo" /\ pr.pc # "none")
              => (pr.env.sentinel.set /\ (pr.pc # "start" => pr.branch = "wrapper"))

\* The orchestrator has launched the build and waits for it; beneath it a stand-in took
\* the wrapper branch and waits for the compiler.
C10_Witness ==
    /\ procs["user"].launched /\ procs["user"].pc = "cargo"
    /\ procs["cargo"].branch = "wrapper" /\ procs["cargo"].pc = "rustc"

\* ========================================================================
\* Properties of the extern resolver
\* ========================================================================
Resolved == extern_result.status # "none"

\* The query answer the resolution went on with: the lightweight one when it was the
\* only query issued, the full one otherwise.
UsedAnswer == IF queries = <<NoDepsQuery>> THEN graph.light ELSE graph.full

\* The packages of the answer in use that carry the name cn.
Entries(cn) == {i \in DOMAIN UsedAnswer.packages : UsedAnswer.packages[i].name = cn}

\* The dependencies cn's active features activate by name (dep:X) that the package's
\* dependency-graph entry does not list.
ActivatedAbsent(cn) ==
    {X \in {Foo, MyDep} :
        \E i \in Entries(cn) :
            LET pkg == UsedAnswer.packages[i]
                file == ReadManifest(graph.files, pkg.manifest_path)
            IN  /\ file.kind = "ok"
                /\ file.features.set
                /\ \E f \in Range(feature_map[cn]) \cap DOMAIN file.features.val :
                      DepEntry(X) \in Range(file.features.val[f])
                /\ \A j \in DOMAIN pkg.dependencies : pkg.dependencies[j].name # X}

\* The dependency names the returned extern map lists for cn.
ExternNames(cn) ==
    IF cn \in DOMAIN extern_result.map
    THEN {extern_result.map[cn][i].pkg_name : i \in DOMAIN extern_result.map[cn]}
    ELSE {}

\* C14: a dependency activated by name that is absent from the package's
\* dependency-graph entry is silently skipped.  Whenever resolution succeeds, the extern
\* map holds no ExternDep for a dep:X of an active feature whose X the package's graph
\* entry does not list.
C14_AbsentDepSkipped ==
    extern_result.status = "ok" =>
        \A cn \in DOMAIN feature_map : ActivatedAbsent(cn) \cap ExternNames(cn) = {}

\* C15: one ExternDep per (package, dependency) pair.  In the extern map a successful
\* resolution returns, no two entries of a package name the same dependency.
C15_OneExternPerPair ==
    extern_result.status = "ok" =>
        \A cn \in DOMAIN extern_result.map :
            \A i, j \in DOMAIN extern_result.map[cn] :
                extern_result.map[cn][i].pkg_name = extern_result.map[cn][j].pkg_name => i = j

\* The lightweight answer parses and lists every package the feature map names.
LightCovers ==
    /\ graph.light.status = "ok"
    /\ \A cn \in DOMAIN feature_map :
          \E i \in DOMAIN graph.light.packages : graph.light.packages[i].name = cn

\* C16: two-tier graph query.  After a resolution: the lightweight query comes before
\* the full one; the full query was issued only if the lightweight one failed or its
\* answer lacks a package the feature map names; when the lightweight answer lists them
\* all, the full query was not issued and the result is the one computed from the
\* lightweight answer; the resolution ended in a graph-query error only when the full
\* query was issued and failed.
C16_TwoTierQuery ==
    Resolved =>
        /\ queries \in {<<>>, <<NoDepsQuery>>, <<NoDepsQuery, FullQuery>>}
        /\ FullQuery \in Range(queries) => (graph.light.status = "fail" \/ ~LightCovers)
        /\ (DOMAIN feature_map # {} /\ LightCovers) =>
              /\ queries = <<NoDepsQuery>>
              /\ \E ordF \in Perms(DOMAIN feature_map) :
                    extern_result =
                        resolve_extern_map_from_metadata(graph.light, feature_map, ordF, graph.files)
        /\ extern_result.status = "graph" =>
              (FullQuery \in Range(queries) /\ graph.full.status = "fail")

\* Both tiers at work: the lightweight answer lacks a package, the full query was
\* issued and bindings were resolved from its answer.
C16_Witness ==
    /\ Resolved
    /\ graph.light.status = "ok" /\ ~LightCovers
    /\ queries = <<NoDepsQuery, FullQuery>>
    /\ extern_result.status = "ok"
    /\ DOMAIN extern_result.map # {}

\* ========================================================================
\* Properties of the orchestrator's resolution phase
\* ========================================================================
\* .config.toml is there and parses as xtask's ProjectConfig.
ConfigLoads == config_exists /\ XtaskParseConfig(configFile.lines).ok

\* Every manifest the walk visits parses.
ManifestsParse == \A d \in DOMAIN manifests : manifests[d].kind # "malformed"

\* Process i took the orchestrator branch and left the resolution phase.
Orchestrated(i) == procs[i].branch = "xtask" /\ procs[i].pc \in {"cargo", "exited"}

\* The failure half of C13 on its own: a config or manifest that cannot be read or
\* parsed ends the orchestrator with an error before the build is launched.
ResolutionFailureIsFatal ==
    \A i \in DOMAIN procs :
        (Orchestrated(i) /\ ~(ConfigLoads /\ ManifestsParse)) =>
            (~procs[i].launched /\ procs[i].pc = "exited" /\ procs[i].exit = Code(1))

\* C13: no partial build.  An orchestrator launches the build only after config
\* loading, feature mapping and extern resolution have all completed successfully; when
\* a resolution-phase step fails it ends with an error and never launches the build.
C13_NoPartialBuild ==
    /\ \A i \in DOMAIN procs :
          (Orchestrated(i) /\ procs[i].launched) =>
              (ConfigLoads /\ ManifestsParse /\ extern_result.status = "ok")
    /\ ResolutionFailureIsFatal

\* ========================================================================
\* Properties of two consecutive passes
\* ========================================================================
Ended(r) == passes[r].pc = "done"
BothResolved == \A r \in {1, 2} : Ended(r) /\ passes[r].ok

\* The opaque hash flag among the tracked compiler flags: from --cfg=__xfp=" to the
\* end, empty when the flags carry none.
HashFlag(flags) ==
    IF \E i \in DOMAIN flags : flags[i] = "--cfg=__xfp=\""
    THEN SubSeq(flags, CHOOSE i \in DOMAIN flags : flags[i] = "--cfg=__xfp=\"", Len(flags))
    ELSE <<>>

\* C11: cache invalidation on a mapping-only change.  Two passes over the same config
\* (same active set) whose resolved feature maps or extern maps differ produce tracked
\* compiler flags that differ in the hash flag.
C11_MappingChangeChangesHash ==
    ( /\ BothResolved
      /\ Range(passes[1].active) = Range(passes[2].active)
      /\ \/ passes[1].feature_map # passes[2].feature_map
         \/ passes[1].extern_map # passes[2].extern_map )
    => HashFlag(passes[1].rustflags) # HashFlag(passes[2].rustflags)

\* C12: determinism.  Two passes over the same schema, config, manifests, dependency
\* graph and rlib paths end alike and produce the same .cargo/config.toml, the same
\* .vscode/settings.json and the same hash flag, whatever order the HashMaps iterate in.
C12_Deterministic ==
    (Ended(1) /\ Ended(2) /\ passes[1].world = passes[2].world) =>
        /\ passes[1].ok = passes[2].ok
        /\ passes[1].cargo_config = passes[2].cargo_config
        /\ passes[1].vscode_settings = passes[2].vscode_settings
        /\ HashFlag(passes[1].rustflags) = HashFlag(passes[2].rustflags)

====
